---- MODULE Spec2Model ----
(* Model of configure.py: BlenderCustomSettings and the script's entry       *)
(* point.  The host (bpy) is the environment: its version string, its       *)
(* screens/areas/spaces, cameras, scene, view layer, preferences and the    *)
(* set of assignments it refuses are inputs drawn in Init.                  *)
(*                                                                          *)
(* Conventions.  A Python str that the code slices or parses is a sequence  *)
(* of one-character strings.  A Python float is an exact decimal fraction:  *)
(* a parsed float is [num, den]; a float stored in a host attribute is an   *)
(* integer count of thousandths (0.001 is 1, 0.8 is 800, 1000 is 1000000).  *)
(* Python int, bool and str attribute values are Int, BOOLEAN and STRING.   *)
EXTENDS Integers, Sequences, FiniteSets, TLC

VARIABLES bpy, rejects, pc, calls, output, exception, runs, lookup

vars == <<bpy, rejects, pc, calls, output, exception, runs, lookup>>

(***************************************************************************)
(* Bounds of the model.                                                    *)
(***************************************************************************)
\* total number of spaces the host holds over all screens and areas
MaxSpaces == 3
\* number of cameras in bpy.data.cameras
MaxCameras == 1
\* number of times the script is run in one host session
MaxRuns == 2
\* highest patch number N of a release string "M.m.N"
MaxPatch == 10
\* length of the arbitrary version strings
MaxVersionLen == 4
\* number of assignments the host refuses
MaxRejects == 1

(***************************************************************************)
(* Python str and float helpers                                            *)
(***************************************************************************)
Min(a, b) == IF a < b THEN a ELSE b

Digits == <<"0", "1", "2", "3", "4", "5", "6", "7", "8", "9">>

IsDigit(c) == \E i \in 1..10 : Digits[i] = c

DigitVal(c) == (CHOOSE i \in 1..10 : Digits[i] = c) - 1

RECURSIVE Pow10(_)
Pow10(n) == IF n = 0 THEN 1 ELSE 10 * Pow10(n - 1)

\* mutant of Slice: one character short, s[:n - 1]
SliceShort(s, n) == SubSeq(s, 1, Min(n - 1, Len(s)))

\* s[:n]
Slice(s, n) == SubSeq(s, 1, Min(n, Len(s)))

\* the integer written by the digit characters of s, any "." skipped
RECURSIVE DigitsValue(_)
DigitsValue(s) ==
    IF Len(s) = 0 THEN 0
    ELSE LET c == s[Len(s)]
             front == SubSeq(s, 1, Len(s) - 1)
         IN  IF c = "." THEN DigitsValue(front)
             ELSE 10 * DigitsValue(front) + DigitVal(c)

\* float(s) for a str over the digits and ".": at least one digit and at
\* most one point, otherwise ValueError
ParseFloat(s) ==
    LET dots == {i \in 1..Len(s) : s[i] = "."}
        digs == {i \in 1..Len(s) : IsDigit(s[i])}
        valid == /\ Cardinality(dots) + Cardinality(digs) = Len(s)
                 /\ Cardinality(dots) <= 1
                 /\ digs # {}
        frac == IF dots = {} THEN 0
                ELSE Len(s) - (CHOOSE i \in dots : TRUE)
    IN  IF valid
        THEN [ok |-> TRUE, num |-> DigitsValue(s), den |-> Pow10(frac)]
        ELSE [ok |-> FALSE, num |-> 0, den |-> 1]

\* a == b on two floats
FloatEq(a, b) == a.num * b.den = b.num * a.den

\* str(n) of a non-negative int
RECURSIVE IntToStr(_)
IntToStr(n) ==
    IF n < 10 THEN <<Digits[n + 1]>>
    ELSE Append(IntToStr(n \div 10), Digits[(n % 10) + 1])

(***************************************************************************)
(* The host's objects.  An object is a function from attribute name to     *)
(* value; bpy is a record of the objects the script reaches.               *)
(***************************************************************************)
\* bpy.data.screens is a name-keyed collection: two screens, one that
\* setup_scene_shading targets and one that it does not
ScreenNames == <<"Layout", "Shading">>

SpaceTypes == {"VIEW_3D", "OUTLINER", "CONSOLE"}

\* attribute values of a host that has not been configured
PriorView3D ==
    [k \in {"shading.type", "shading.light", "shading.color_type",
            "shading.cavity_type"} |->
        CASE k = "shading.type" -> "WIREFRAME"
          [] k = "shading.light" -> "FLAT"
          [] k = "shading.color_type" -> "MATERIAL"
          [] OTHER -> "SCREEN"]
    @@ [k \in {"shading.show_cavity"} |-> FALSE]
    @@ [k \in {"shading.cavity_ridge_factor", "shading.cavity_valley_factor",
               "shading.curvature_ridge_factor",
               "shading.curvature_valley_factor"} |-> 500]
    @@ [k \in {"clip_start"} |-> 10]
    @@ [k \in {"clip_end"} |-> 100000]

PriorOutliner(mode) ==
    [k \in {"display_mode"} |-> mode]
    @@ [k \in {"show_restrict_column_select",
               "show_restrict_column_render"} |-> FALSE]

PriorConsole == [k \in {"font_size"} |-> 12]

PriorCamera == [k \in {"clip_start"} |-> 100] @@ [k \in {"clip_end"} |-> 100000]

PriorScene ==
    [k \in {"render.engine", "cycles.feature_set", "cycles.device",
            "cycles.preview_denoising", "render.threads_mode"} |->
        CASE k = "render.engine" -> "BLENDER_EEVEE"
          [] k = "cycles.feature_set" -> "SUPPORTED"
          [] k = "cycles.device" -> "CPU"
          [] k = "cycles.preview_denoising" -> "AUTO"
          [] OTHER -> "FIXED"]
    @@ [k \in {"cycles.preview_dicing_rate", "cycles.samples",
               "cycles.preview_samples", "cycles.max_bounces",
               "cycles.diffuse_bounces", "cycles.glossy_bounces",
               "cycles.transparent_max_bounces", "cycles.transmission_bounces",
               "cycles.volume_bounces", "render.tile_x", "render.tile_y"} |->
        CASE k = "cycles.preview_dicing_rate" -> 8
          [] k = "cycles.samples" -> 64
          [] k \in {"render.tile_x", "render.tile_y"} -> 64
          [] OTHER -> 4]
    @@ [k \in {"cycles.use_adaptive_sampling", "cycles.caustics_reflective",
               "cycles.caustics_refractive"} |-> FALSE]
    @@ [k \in {"cycles.use_progressive_refine"} |-> TRUE]

PriorViewLayer ==
    [k \in {"cycles.use_denoising", "cycles.use_optix_denoising"} |-> FALSE]
    @@ [k \in {"cycles.denoising_optix_input_passes"} |-> "RGB"]

PriorPreferences ==
    [k \in {"view.ui_line_width", "view.language"} |->
        IF k = "view.language" THEN "DEFAULT" ELSE "THIN"]
    @@ [k \in {"view.ui_scale"} |-> 1000]
    @@ [k \in {"themes[0].view_3d.face_select[3]"} |-> 200]
    @@ [k \in {"view.gizmo_size", "inputs.mouse_double_click_time",
               "inputs.drag_threshold_mouse", "inputs.drag_threshold",
               "inputs.move_threshold"} |->
        CASE k = "view.gizmo_size" -> 75
          [] k = "inputs.mouse_double_click_time" -> 350
          [] k = "inputs.drag_threshold_mouse" -> 3
          [] k = "inputs.drag_threshold" -> 30
          [] OTHER -> 2]
    @@ [k \in {"view.show_splash", "view.show_developer_ui",
               "view.use_translate_interface",
               "view.use_translate_new_dataname"} |-> TRUE]
    @@ [k \in {"view.show_tooltips", "view.show_tooltips_python",
               "view.use_translate_tooltips",
               "inputs.use_numeric_input_advanced", "inputs.ndof_show_guide",
               "inputs.ndof_pan_yz_swap_axis", "inputs.use_zoom_to_mouse"} |->
        FALSE]

PriorKeyconfig == [k \in {"preferences.spacebar_action"} |-> "PLAY"]

PriorCyclesAddon == [k \in {"preferences.compute_device_type"} |-> "NONE"]

(***************************************************************************)
(* Attribute access on the host                                            *)
(***************************************************************************)
\* obj is a reference: <<"scene">>, <<"view_layer">>, <<"preferences">>,
\* <<"keyconfig">>, <<"addon", name>>, <<"camera", i>> or
\* <<"space", screen index, area index, space index>>
Asg(obj, key, val) == [obj |-> obj, key |-> key, val |-> val]

SpaceAt(b, ref) == b.screens[ref[1]].areas[ref[2]].spaces[ref[3]]

GetAttr(b, obj, key) ==
    CASE obj[1] = "scene" -> b.scene[key]
      [] obj[1] = "view_layer" -> b.view_layer[key]
      [] obj[1] = "preferences" -> b.preferences[key]
      [] obj[1] = "keyconfig" -> b.keyconfig[key]
      [] obj[1] = "addon" -> b.addons[obj[2]][key]
      [] obj[1] = "camera" -> b.cameras[obj[2]][key]
      [] obj[1] = "space" ->
            b.screens[obj[2]].areas[obj[3]].spaces[obj[4]].attrs[key]

SetAttr(b, obj, key, val) ==
    CASE obj[1] = "scene" -> [b EXCEPT !.scene[key] = val]
      [] obj[1] = "view_layer" -> [b EXCEPT !.view_layer[key] = val]
      [] obj[1] = "preferences" -> [b EXCEPT !.preferences[key] = val]
      [] obj[1] = "keyconfig" -> [b EXCEPT !.keyconfig[key] = val]
      [] obj[1] = "addon" -> [b EXCEPT !.addons[obj[2]][key] = val]
      [] obj[1] = "camera" -> [b EXCEPT !.cameras[obj[2]][key] = val]
      [] obj[1] = "space" ->
            [b EXCEPT !.screens[obj[2]].areas[obj[3]].spaces[obj[4]].attrs[key]
                          = val]

\* mutant of ApplyAll: a refused statement is skipped and the setter goes
\* on, as under "try: ... except: pass"
RECURSIVE ApplyAllSwallow(_, _, _)
ApplyAllSwallow(b, assigns, rej) ==
    IF Len(assigns) = 0 THEN [bpy |-> b, exception |-> "none"]
    ELSE LET a == Head(assigns)
         IN  IF (a.obj[1] = "addon" /\ a.obj[2] \notin DOMAIN b.addons)
                \/ a.key \in rej
             THEN ApplyAllSwallow(b, Tail(assigns), rej)
             ELSE ApplyAllSwallow(SetAttr(b, a.obj, a.key, a.val),
                                  Tail(assigns), rej)

\* The statements of a setter, run in order.  The script has no try/except:
\* the first statement the host refuses ends the setter with the host's
\* exception, and the statements before it have taken effect.
RECURSIVE ApplyAll(_, _, _)
ApplyAll(b, assigns, rej) ==
    IF Len(assigns) = 0 THEN [bpy |-> b, exception |-> "none"]
    ELSE LET a == Head(assigns)
         IN  IF a.obj[1] = "addon" /\ a.obj[2] \notin DOMAIN b.addons
             THEN [bpy |-> b, exception |-> "KeyError"]
             ELSE IF a.key \in rej
             THEN [bpy |-> b, exception |-> "TypeError"]
             ELSE ApplyAll(SetAttr(b, a.obj, a.key, a.val), Tail(assigns), rej)

(***************************************************************************)
(* Utilities                                                               *)
(***************************************************************************)
\* self.supports = [2.83]
supports == <<[num |-> 283, den |-> 100]>>

\* self.ver = float(bpy.app.version_string[:4])
Ver(b) == ParseFloat(Slice(b.version_string, 4))

\* self.ver in self.supports
check_version(ver) == \E i \in 1..Len(supports) : FloatEq(ver, supports[i])

\* an optional argument: None (the default), or a value
NoneStr == [given |-> FALSE, value |-> ""]

NoneList == [given |-> FALSE, value |-> <<>>]

Given(v) == [given |-> TRUE, value |-> v]

\* "if display_mode:" - None and "" are both false
TruthyStr(arg) == arg.given /\ arg.value # ""

\* "if screen_names:" - None and [] are both false
TruthyList(arg) == arg.given /\ Len(arg.value) > 0

Indices(seq) == [i \in 1..Len(seq) |-> i]

RECURSIVE Concat(_)
Concat(seqs) == IF Len(seqs) = 0 THEN <<>> ELSE Head(seqs) \o Concat(Tail(seqs))

\* the screens the loop visits, as indices into bpy.data.screens
KeptScreens(b, screen_names) ==
    IF TruthyList(screen_names)
    THEN SelectSeq(Indices(b.screens),
                   LAMBDA s : \E i \in 1..Len(screen_names.value) :
                                  screen_names.value[i] = b.screens[s].name)
    ELSE Indices(b.screens)

\* mutant of KeptAreas: the areas are not filtered by type
KeptAreasAnyType(b, s, type_name) == Indices(b.screens[s].areas)

\* the areas of screen s the loop visits
KeptAreas(b, s, type_name) ==
    SelectSeq(Indices(b.screens[s].areas),
              LAMBDA a : b.screens[s].areas[a].type = type_name)

\* the spaces of an area that pass the type filter
TypedSpaces(b, s, a, type_name) ==
    SelectSeq(Indices(b.screens[s].areas[a].spaces),
              LAMBDA p : b.screens[s].areas[a].spaces[p].type = type_name)

\* the spaces of an area that are appended to target_spaces
KeptSpaces(b, s, a, type_name, display_mode) ==
    IF TruthyStr(display_mode)
    THEN SelectSeq(TypedSpaces(b, s, a, type_name),
                   LAMBDA p : b.screens[s].areas[a].spaces[p].attrs["display_mode"]
                                  = display_mode.value)
    ELSE TypedSpaces(b, s, a, type_name)

\* sp.display_mode is read on every space that passed the type filter; a
\* space without that attribute makes the host raise AttributeError
DisplayModeMissing(b, type_name, display_mode, screen_names) ==
    /\ TruthyStr(display_mode)
    /\ \E i \in 1..Len(KeptScreens(b, screen_names)) :
         LET s == KeptScreens(b, screen_names)[i]
         IN  \E j \in 1..Len(KeptAreas(b, s, type_name)) :
               LET a == KeptAreas(b, s, type_name)[j]
               IN  \E k \in 1..Len(TypedSpaces(b, s, a, type_name)) :
                     LET p == TypedSpaces(b, s, a, type_name)[k]
                     IN  "display_mode" \notin
                            DOMAIN b.screens[s].areas[a].spaces[p].attrs

\* get_spaces: the references <<screen, area, space>> appended, in order
get_spaces(b, type_name, display_mode, screen_names) ==
    IF DisplayModeMissing(b, type_name, display_mode, screen_names)
    THEN [raised |-> TRUE, spaces |-> <<>>]
    ELSE LET screens == KeptScreens(b, screen_names)
             OfArea(s, a) ==
                 LET ps == KeptSpaces(b, s, a, type_name, display_mode)
                 IN  [k \in 1..Len(ps) |-> <<s, a, ps[k]>>]
             OfScreen(s) ==
                 LET as == KeptAreas(b, s, type_name)
                 IN  Concat([j \in 1..Len(as) |-> OfArea(s, as[j])])
         IN  [raised |-> FALSE,
              spaces |-> Concat([i \in 1..Len(screens) |-> OfScreen(screens[i])])]

(***************************************************************************)
(* The setters: the statements each one runs, in source order              *)
(***************************************************************************)
\* one statement list per object of a loop
ForEach(objs, values) ==
    Concat([i \in 1..Len(objs) |->
              [j \in 1..Len(values) |->
                  Asg(objs[i], values[j][1], values[j][2])]])

SpaceRefs(spaces) == [i \in 1..Len(spaces) |-> <<"space">> \o spaces[i]]

CyclesAssignments ==
    << Asg(<<"scene">>, "render.engine", "CYCLES"),
       Asg(<<"scene">>, "cycles.feature_set", "EXPERIMENTAL"),
       Asg(<<"scene">>, "cycles.device", "GPU"),
       Asg(<<"scene">>, "cycles.preview_dicing_rate", 1),
       Asg(<<"view_layer">>, "cycles.use_denoising", TRUE),
       Asg(<<"view_layer">>, "cycles.use_optix_denoising", TRUE),
       Asg(<<"view_layer">>, "cycles.denoising_optix_input_passes",
           "RGB_ALBEDO"),
       Asg(<<"scene">>, "cycles.preview_denoising", "NONE"),
       Asg(<<"scene">>, "cycles.samples", 128),
       Asg(<<"scene">>, "cycles.preview_samples", 32),
       Asg(<<"scene">>, "cycles.use_adaptive_sampling", TRUE),
       Asg(<<"scene">>, "cycles.max_bounces", 32),
       Asg(<<"scene">>, "cycles.diffuse_bounces", 32),
       Asg(<<"scene">>, "cycles.glossy_bounces", 32),
       Asg(<<"scene">>, "cycles.transparent_max_bounces", 32),
       Asg(<<"scene">>, "cycles.transmission_bounces", 32),
       Asg(<<"scene">>, "cycles.volume_bounces", 32),
       Asg(<<"scene">>, "cycles.caustics_reflective", TRUE),
       Asg(<<"scene">>, "cycles.caustics_refractive", TRUE),
       Asg(<<"scene">>, "render.threads_mode", "AUTO"),
       Asg(<<"scene">>, "render.tile_x", 256),
       Asg(<<"scene">>, "render.tile_y", 256),
       Asg(<<"scene">>, "cycles.use_progressive_refine", FALSE) >>

target_screens ==
    <<"Layout", "Modeling", "Sculpting", "UV Editing", "Animation", "Scripting">>

ShadingValues ==
    << <<"shading.type", "SOLID">>,
       <<"shading.light", "STUDIO">>,
       <<"shading.color_type", "RANDOM">>,
       <<"shading.show_cavity", TRUE>>,
       <<"shading.cavity_type", "BOTH">>,
       <<"shading.cavity_ridge_factor", 800>>,
       <<"shading.cavity_valley_factor", 1000>>,
       <<"shading.curvature_ridge_factor", 800>>,
       <<"shading.curvature_valley_factor", 1000>> >>

OutlinerValues ==
    << <<"show_restrict_column_select", TRUE>>,
       <<"show_restrict_column_render", TRUE>> >>

\* start, end = 0.001, 1000
ClipValues == << <<"clip_start", 1>>, <<"clip_end", 1000000>> >>

ScriptingValues == << <<"font_size", 16>> >>

PreferencesAssignments ==
    << Asg(<<"preferences">>, "view.ui_scale", 1050),
       Asg(<<"preferences">>, "view.ui_line_width", "AUTO"),
       Asg(<<"preferences">>, "view.show_splash", FALSE),
       Asg(<<"preferences">>, "view.show_tooltips", TRUE),
       Asg(<<"preferences">>, "view.show_tooltips_python", TRUE),
       Asg(<<"preferences">>, "view.show_developer_ui", FALSE),
       Asg(<<"preferences">>, "view.language", "ja_JP"),
       Asg(<<"preferences">>, "view.use_translate_tooltips", TRUE),
       Asg(<<"preferences">>, "view.use_translate_interface", FALSE),
       Asg(<<"preferences">>, "view.use_translate_new_dataname", FALSE),
       Asg(<<"preferences">>, "themes[0].view_3d.face_select[3]", 400),
       Asg(<<"preferences">>, "view.gizmo_size", 120),
       Asg(<<"preferences">>, "inputs.use_numeric_input_advanced", TRUE),
       Asg(<<"preferences">>, "inputs.mouse_double_click_time", 250),
       Asg(<<"preferences">>, "inputs.drag_threshold_mouse", 5),
       Asg(<<"preferences">>, "inputs.drag_threshold", 45),
       Asg(<<"preferences">>, "inputs.move_threshold", 3),
       Asg(<<"preferences">>, "inputs.ndof_show_guide", TRUE),
       Asg(<<"preferences">>, "inputs.ndof_pan_yz_swap_axis", TRUE),
       Asg(<<"preferences">>, "inputs.use_zoom_to_mouse", TRUE),
       Asg(<<"keyconfig">>, "preferences.spacebar_action", "SEARCH"),
       Asg(<<"addon", "cycles">>, "preferences.compute_device_type", "OPTIX") >>

\* a setter that loops over get_spaces: the lookup runs first, then one
\* group of statements per space returned, then the statements that follow
OverSpaces(b, lk, values, after, rej) ==
    IF lk.raised THEN [bpy |-> b, exception |-> "AttributeError"]
    ELSE ApplyAll(b, ForEach(SpaceRefs(lk.spaces), values) \o after, rej)

SetupSceneCycles(b, rej) == ApplyAll(b, CyclesAssignments, rej)

\* mutant of SetupSceneShading: no screen_names argument
SetupSceneShadingAllScreens(b, rej) ==
    OverSpaces(b, get_spaces(b, "VIEW_3D", NoneStr, NoneList),
               ShadingValues, <<>>, rej)

SetupSceneShading(b, rej) ==
    OverSpaces(b, get_spaces(b, "VIEW_3D", NoneStr, Given(target_screens)),
               ShadingValues, <<>>, rej)

\* mutant of SetupSceneOutliner: no display_mode argument
SetupSceneOutlinerAnyMode(b, rej) ==
    OverSpaces(b, get_spaces(b, "OUTLINER", NoneStr, NoneList),
               OutlinerValues, <<>>, rej)

SetupSceneOutliner(b, rej) ==
    OverSpaces(b, get_spaces(b, "OUTLINER", Given("VIEW_LAYER"), NoneList),
               OutlinerValues, <<>>, rej)

\* mutant of SetupSceneClipping: the camera loop is missing
SetupSceneClippingNoCameras(b, rej) ==
    OverSpaces(b, get_spaces(b, "VIEW_3D", NoneStr, NoneList), ClipValues,
               <<>>, rej)

SetupSceneClipping(b, rej) ==
    OverSpaces(b, get_spaces(b, "VIEW_3D", NoneStr, NoneList), ClipValues,
               ForEach([i \in 1..Len(b.cameras) |-> <<"camera", i>>],
                       ClipValues),
               rej)

\* mutant of SetupSceneScripting: space.font_size += 16
SetupSceneScriptingAdds(b, rej) ==
    LET lk == get_spaces(b, "CONSOLE", NoneStr, NoneList)
        refs == SpaceRefs(lk.spaces)
    IN  ApplyAll(b, [i \in 1..Len(refs) |->
                       Asg(refs[i], "font_size",
                           GetAttr(b, refs[i], "font_size") + 16)], rej)

SetupSceneScripting(b, rej) ==
    OverSpaces(b, get_spaces(b, "CONSOLE", NoneStr, NoneList),
               ScriptingValues, <<>>, rej)

SetupPreferences(b, rej) == ApplyAll(b, PreferencesAssignments, rej)

\* mutant of SetterOrder: the outliner is set up before the shading
SetterOrderSwapped ==
    <<"setup_scene_cycles", "setup_scene_outliner", "setup_scene_shading",
      "setup_scene_clipping", "setup_scene_scripting", "setup_preferences">>

\* the order in which the entry point calls the setters
SetterOrder ==
    <<"setup_scene_cycles", "setup_scene_shading", "setup_scene_outliner",
      "setup_scene_clipping", "setup_scene_scripting", "setup_preferences">>

(***************************************************************************)
(* The hosts the script may be started in                                  *)
(***************************************************************************)
AllAssignments == CyclesAssignments \o PreferencesAssignments

\* an object of a host in which the settings already have the script's values
Overwrite(prior, values) ==
    [k \in DOMAIN prior |->
        IF \E i \in 1..Len(values) : values[i][1] = k
        THEN values[CHOOSE i \in 1..Len(values) : values[i][1] = k][2]
        ELSE prior[k]]

OverwriteObj(prior, obj) ==
    [k \in DOMAIN prior |->
        IF \E i \in 1..Len(AllAssignments) :
              AllAssignments[i].obj = obj /\ AllAssignments[i].key = k
        THEN AllAssignments[CHOOSE i \in 1..Len(AllAssignments) :
              AllAssignments[i].obj = obj /\ AllAssignments[i].key = k].val
        ELSE prior[k]]

View3DAttrs(cfg) ==
    IF cfg THEN Overwrite(PriorView3D, ShadingValues \o ClipValues)
    ELSE PriorView3D

OutlinerAttrs(mode, cfg) ==
    IF cfg THEN Overwrite(PriorOutliner(mode), OutlinerValues)
    ELSE PriorOutliner(mode)

ConsoleAttrs(cfg) ==
    IF cfg THEN Overwrite(PriorConsole, ScriptingValues) ELSE PriorConsole

CameraAttrs(cfg) == IF cfg THEN Overwrite(PriorCamera, ClipValues) ELSE PriorCamera

\* the spaces an area may hold; only an outliner has a display_mode
SpaceKinds(cfg) ==
    { [type |-> "VIEW_3D", attrs |-> View3DAttrs(cfg)],
      [type |-> "OUTLINER", attrs |-> OutlinerAttrs("VIEW_LAYER", cfg)],
      [type |-> "OUTLINER", attrs |-> OutlinerAttrs("LIBRARIES", cfg)],
      [type |-> "CONSOLE", attrs |-> ConsoleAttrs(cfg)] }

\* an area keeps one space per editor type it has shown; the first is the
\* active one and gives the area its type
AreasWith(k, cfg) ==
    { [type |-> sp[1].type, spaces |-> sp] :
        sp \in { q \in [1..k -> SpaceKinds(cfg)] :
                   \A i, j \in 1..k : i < j => q[i].type # q[j].type } }

\* the area lists that hold n spaces in all
RECURSIVE AreaSeqs(_, _)
AreaSeqs(n, cfg) ==
    IF n = 0 THEN {<<>>}
    ELSE UNION { { <<a>> \o rest : a \in AreasWith(k, cfg),
                                   rest \in AreaSeqs(n - k, cfg) } :
                 k \in 1..Min(n, Cardinality(SpaceTypes)) }

Layouts(cfg) ==
    UNION { { << [name |-> ScreenNames[1], areas |-> a1],
                 [name |-> ScreenNames[2], areas |-> a2] >> :
                a1 \in AreaSeqs(n[1], cfg), a2 \in AreaSeqs(n[2], cfg) } :
            n \in { m \in (0..MaxSpaces) \X (0..MaxSpaces) :
                      m[1] + m[2] <= MaxSpaces } }

\* one area per editor type in the first screen, a 3D view in the second
DefaultLayout ==
    << [name |-> ScreenNames[1],
        areas |-> << [type |-> "VIEW_3D",
                      spaces |-> <<[type |-> "VIEW_3D",
                                    attrs |-> View3DAttrs(FALSE)]>>],
                     [type |-> "OUTLINER",
                      spaces |-> <<[type |-> "OUTLINER",
                                    attrs |-> OutlinerAttrs("VIEW_LAYER", FALSE)]>>],
                     [type |-> "CONSOLE",
                      spaces |-> <<[type |-> "CONSOLE",
                                    attrs |-> ConsoleAttrs(FALSE)]>>] >>],
       [name |-> ScreenNames[2],
        areas |-> << [type |-> "VIEW_3D",
                      spaces |-> <<[type |-> "VIEW_3D",
                                    attrs |-> View3DAttrs(FALSE)]>>] >>] >>

Host(version, layout, ncam, cfg, addons) ==
    [ version_string |-> version,
      screens |-> layout,
      cameras |-> [i \in 1..ncam |-> CameraAttrs(cfg)],
      scene |-> IF cfg THEN OverwriteObj(PriorScene, <<"scene">>) ELSE PriorScene,
      view_layer |-> IF cfg THEN OverwriteObj(PriorViewLayer, <<"view_layer">>)
                     ELSE PriorViewLayer,
      preferences |-> IF cfg THEN OverwriteObj(PriorPreferences, <<"preferences">>)
                      ELSE PriorPreferences,
      keyconfig |-> IF cfg THEN OverwriteObj(PriorKeyconfig, <<"keyconfig">>)
                    ELSE PriorKeyconfig,
      addons |-> [n \in addons |->
                    IF cfg THEN OverwriteObj(PriorCyclesAddon, <<"addon", n>>)
                    ELSE PriorCyclesAddon] ]

\* bpy.app.version_string of a release: "major.minor.patch"
Release(major, minor, patch) ==
    IntToStr(major) \o <<".">> \o IntToStr(minor) \o <<".">> \o IntToStr(patch)

ReleaseSeries == {<<2, 82>>, <<2, 83>>, <<2, 90>>, <<3, 0>>, <<3, 6>>, <<10, 1>>}

ReleaseVersions ==
    { Release(r[1], r[2], p) : r \in ReleaseSeries, p \in 0..MaxPatch }

VersionAlphabet == {"2", "3", "8", "."}

RawVersions ==
    UNION { [1..n -> VersionAlphabet] : n \in 1..MaxVersionLen }

\* the assignments a host may refuse (an enum value or a property its
\* build does not have)
RejectableKeys ==
    { "cycles.device", "cycles.denoising_optix_input_passes",
      "shading.cavity_type", "show_restrict_column_render", "clip_end",
      "font_size", "view.language", "preferences.spacebar_action" }

RejectSets == { r \in SUBSET RejectableKeys : Cardinality(r) <= MaxRejects }

NoLookup ==
    [called |-> FALSE, type_name |-> "", display_mode |-> NoneStr,
     screen_names |-> NoneList, raised |-> FALSE, spaces |-> <<>>]

InitScript ==
    /\ pc = "start"
    /\ calls = <<>>
    /\ output = <<>>
    /\ exception = "none"
    /\ runs = 0
    /\ lookup = NoLookup

\* hosts that accept every assignment, in every layout
Init ==
    /\ \E cfg \in BOOLEAN, ncam \in 0..MaxCameras :
         \E layout \in Layouts(cfg) :
            bpy = Host(Release(2, 83, 0), layout, ncam, cfg, {"cycles"})
    /\ rejects = {}
    /\ InitScript

\* hosts of every version, some of which refuse an assignment or lack the
\* cycles add-on
InitVersions ==
    /\ \E v \in ReleaseVersions \cup RawVersions, addons \in SUBSET {"cycles"} :
         bpy = Host(v, DefaultLayout, 1, FALSE, addons)
    /\ rejects \in RejectSets
    /\ InitScript

(***************************************************************************)
(* Entry point                                                             *)
(***************************************************************************)
\* bcs = BlenderCustomSettings(); if bcs.check_version(): print ... else:
\* print ...; del bcs
EntryPoint ==
    /\ pc = "start"
    /\ IF ~Ver(bpy).ok
       THEN /\ exception' = "ValueError"
            /\ pc' = "error"
            /\ UNCHANGED output
       ELSE IF check_version(Ver(bpy))
       THEN /\ output' = Append(output, "BlenderCustomSettings: Apply custom settings...")
            /\ pc' = SetterOrder[1]
            /\ UNCHANGED exception
       ELSE /\ output' = Append(output, "BlenderCustomSettings: Unsupported version!")
            /\ pc' = "done"
            /\ UNCHANGED exception
    /\ UNCHANGED <<bpy, rejects, calls, runs, lookup>>

\* what a call of the i-th setter leaves behind, r being the setter's outcome
Returns(i, r) ==
    /\ bpy' = r.bpy
    /\ exception' = r.exception
    /\ pc' = IF r.exception # "none" THEN "error"
             ELSE IF i < Len(SetterOrder) THEN SetterOrder[i + 1]
             ELSE "done"
    /\ calls' = Append(calls, SetterOrder[i])
    /\ UNCHANGED <<rejects, output, runs, lookup>>

setup_scene_cycles ==
    /\ pc = SetterOrder[1]
    /\ Returns(1, SetupSceneCycles(bpy, rejects))

setup_scene_shading ==
    /\ pc = SetterOrder[2]
    /\ Returns(2, SetupSceneShading(bpy, rejects))

setup_scene_outliner ==
    /\ pc = SetterOrder[3]
    /\ Returns(3, SetupSceneOutliner(bpy, rejects))

setup_scene_clipping ==
    /\ pc = SetterOrder[4]
    /\ Returns(4, SetupSceneClipping(bpy, rejects))

setup_scene_scripting ==
    /\ pc = SetterOrder[5]
    /\ Returns(5, SetupSceneScripting(bpy, rejects))

setup_preferences ==
    /\ pc = SetterOrder[6]
    /\ Returns(6, SetupPreferences(bpy, rejects))

\* the script is run again in the same host session
RunAgain ==
    /\ pc \in {"done", "error"}
    /\ runs + 1 < MaxRuns
    /\ runs' = runs + 1
    /\ pc' = "start"
    /\ calls' = <<>>
    /\ output' = <<>>
    /\ exception' = "none"
    /\ UNCHANGED <<bpy, rejects, lookup>>

\* the arguments get_spaces is called with
TypeArgs == SpaceTypes

DisplayModeArgs == {NoneStr, Given(""), Given("VIEW_LAYER"), Given("LIBRARIES")}

ScreenNamesArgs ==
    {NoneList, Given(<<>>), Given(target_screens), Given(<<"Shading">>),
     Given(<<"Shading", "Layout">>)}

\* a call of the helper on its own, and the same call made again
get_spaces_call ==
    /\ pc = "start"
    /\ \E t \in TypeArgs, d \in DisplayModeArgs, n \in ScreenNamesArgs :
         LET r == get_spaces(bpy, t, d, n)
         IN  /\ lookup.called =>
                   /\ lookup.type_name = t
                   /\ lookup.display_mode = d
                   /\ lookup.screen_names = n
             /\ lookup' = [called |-> TRUE, type_name |-> t, display_mode |-> d,
                        screen_names |-> n, raised |-> r.raised,
                        spaces |-> r.spaces]
    /\ UNCHANGED <<bpy, rejects, pc, calls, output, exception, runs>>

Run ==
    \/ EntryPoint
    \/ setup_scene_cycles
    \/ setup_scene_shading
    \/ setup_scene_outliner
    \/ setup_scene_clipping
    \/ setup_scene_scripting
    \/ setup_preferences
    \/ RunAgain

Next == Run

Spec == Init /\ [][Next]_vars

SpecVersions == InitVersions /\ [][Next]_vars

InitLookup ==
    /\ \E layout \in Layouts(FALSE) :
         bpy = Host(Release(2, 83, 0), layout, 0, FALSE, {"cycles"})
    /\ rejects = {}
    /\ InitScript

NextLookup == get_spaces_call

SpecLookup == InitLookup /\ [][NextLookup]_vars

(***************************************************************************)
(* Vocabulary of the properties                                            *)
(***************************************************************************)
\* every space of the host, as <<screen, area, space>>
SpaceSet(b) ==
    UNION { UNION { { <<s, a, p>> :
                        p \in 1..Len(b.screens[s].areas[a].spaces) } :
                    a \in 1..Len(b.screens[s].areas) } :
            s \in 1..Len(b.screens) }

ScreenOf(b, r) == b.screens[r[1]]

AreaOf(b, r) == b.screens[r[1]].areas[r[2]]

\* host iteration order: screen, then area, then space
Before(q, r) ==
    \/ q[1] < r[1]
    \/ q[1] = r[1] /\ q[2] < r[2]
    \/ q[1] = r[1] /\ q[2] = r[2] /\ q[3] < r[3]

\* seq lists exactly the members of set, in host iteration order
ListsInOrder(seq, set) ==
    /\ { seq[i] : i \in 1..Len(seq) } = set
    /\ \A i, j \in 1..Len(seq) : i < j => Before(seq[i], seq[j])

HasAll(attrs, values) ==
    \A i \in 1..Len(values) : attrs[values[i][1]] = values[i][2]

ShadingTargets ==
    {"Layout", "Modeling", "Sculpting", "UV Editing", "Animation", "Scripting"}

(***************************************************************************)
(* C3 - get_spaces                                                         *)
(***************************************************************************)
InList(x, seq) == \E i \in 1..Len(seq) : seq[i] = x

HasDisplayMode(b, r) == "display_mode" \in DOMAIN SpaceAt(b, r).attrs

\* the claim's predicates: the space's type, its display mode when one is
\* given, its screen's name when names are given ("given" read as the code
\* tests it: not None and not empty)
C3_Matches(b, r, t, d, n) ==
    /\ SpaceAt(b, r).type = t
    /\ TruthyStr(d) =>
          HasDisplayMode(b, r) /\ SpaceAt(b, r).attrs["display_mode"] = d.value
    /\ TruthyList(n) => InList(ScreenOf(b, r).name, n.value)

\* C3 as claimed: what get_spaces returns is exactly the spaces, over all
\* screens, areas and spaces, that satisfy every given predicate, in host
\* iteration order.
C3_AsClaimed ==
    (lookup.called /\ ~lookup.raised) =>
        ListsInOrder(lookup.spaces,
                     { r \in SpaceSet(bpy) :
                         C3_Matches(bpy, r, lookup.type_name,
                                    lookup.display_mode, lookup.screen_names) })

\* what the code selects: the area's type must match as well, and an empty
\* display_mode or screen_names counts as not given
C3_Candidate(b, r, t, n) ==
    /\ SpaceAt(b, r).type = t
    /\ AreaOf(b, r).type = t
    /\ (n.given /\ n.value # <<>>) => InList(ScreenOf(b, r).name, n.value)

C3_Selected(b, r, t, d, n) ==
    /\ C3_Candidate(b, r, t, n)
    /\ (d.given /\ d.value # "") => SpaceAt(b, r).attrs["display_mode"] = d.value

\* C3 (amended): get_spaces returns, in host iteration order, exactly the
\* spaces of type type_name that lie in an area of type type_name, have
\* display_mode equal to a non-empty display_mode argument and lie in a screen
\* named in a non-empty screen_names argument; when a non-empty display_mode
\* is given and one of the spaces that pass the type and screen tests has no
\* display_mode attribute, the host's AttributeError propagates instead.
C3_GetSpacesExact ==
    lookup.called =>
        LET t == lookup.type_name
            d == lookup.display_mode
            n == lookup.screen_names
            fails == /\ d.given /\ d.value # ""
                     /\ \E r \in SpaceSet(bpy) :
                           C3_Candidate(bpy, r, t, n) /\ ~HasDisplayMode(bpy, r)
        IN  IF fails THEN lookup.raised
            ELSE /\ ~lookup.raised
                 /\ ListsInOrder(lookup.spaces,
                                 { r \in SpaceSet(bpy) :
                                     C3_Selected(bpy, r, t, d, n) })

\* a call with both filters that returned a space and passed over a space of
\* the asked type lying in an area of another type
C3_Witness ==
    /\ lookup.called
    /\ ~lookup.raised
    /\ Len(lookup.spaces) >= 1
    /\ lookup.display_mode.given /\ lookup.display_mode.value # ""
    /\ lookup.screen_names.given /\ lookup.screen_names.value # <<>>
    /\ \E r \in SpaceSet(bpy) :
          /\ SpaceAt(bpy, r).type = lookup.type_name
          /\ AreaOf(bpy, r).type # lookup.type_name
          /\ InList(ScreenOf(bpy, r).name, lookup.screen_names.value)

(***************************************************************************)
(* C6 - setup_scene_shading                                                *)
(***************************************************************************)
ShadingKeys == { ShadingValues[i][1] : i \in 1..Len(ShadingValues) }

IsView3D(b, r) == SpaceAt(b, r).type = "VIEW_3D"

InView3DArea(b, r) == AreaOf(b, r).type = "VIEW_3D"

InShadingTarget(b, r) == ScreenOf(b, r).name \in ShadingTargets

\* the step of setup_scene_shading gives the spaces in targets the shading
\* values and leaves every other space, and every other attribute, as it was
ShadingStep(targets) ==
    pc = "setup_scene_shading" =>
        /\ SpaceSet(bpy') = SpaceSet(bpy)
        /\ \A r \in SpaceSet(bpy) :
              IF r \in targets
              THEN /\ HasAll(SpaceAt(bpy', r).attrs, ShadingValues)
                   /\ \A k \in DOMAIN SpaceAt(bpy, r).attrs \ ShadingKeys :
                         SpaceAt(bpy', r).attrs[k] = SpaceAt(bpy, r).attrs[k]
              ELSE SpaceAt(bpy', r) = SpaceAt(bpy, r)

\* C6 as claimed: setup_scene_shading sets the shading of exactly the
\* VIEW_3D spaces that belong to a screen named in the target list.
C6_AsClaimed ==
    [][ShadingStep({ r \in SpaceSet(bpy) :
                       IsView3D(bpy, r) /\ InShadingTarget(bpy, r) })]_vars

\* C6 (amended): setup_scene_shading sets the shading of exactly the VIEW_3D
\* spaces that lie in a VIEW_3D area of a screen named Layout, Modeling,
\* Sculpting, UV Editing, Animation or Scripting; every other space (in
\* another screen, of another type, or a VIEW_3D space kept in an area that
\* now shows another editor) is left unchanged.
C6_ShadingFrame ==
    [][ShadingStep({ r \in SpaceSet(bpy) :
                       /\ IsView3D(bpy, r)
                       /\ InView3DArea(bpy, r)
                       /\ InShadingTarget(bpy, r) })]_vars

\* after the setter: a targeted 3D view with the new shading and, in a
\* target screen, a 3D view kept in another editor's area with the shading it
\* had
C6_Witness ==
    /\ pc = "setup_scene_outliner"
    /\ runs = 0
    /\ \E r \in SpaceSet(bpy) :
          /\ IsView3D(bpy, r) /\ InView3DArea(bpy, r) /\ InShadingTarget(bpy, r)
          /\ HasAll(SpaceAt(bpy, r).attrs, ShadingValues)
    /\ \E r \in SpaceSet(bpy) :
          /\ IsView3D(bpy, r) /\ ~InView3DArea(bpy, r) /\ InShadingTarget(bpy, r)
          /\ SpaceAt(bpy, r).attrs = PriorView3D

(***************************************************************************)
(* C7 - setup_scene_clipping                                               *)
(***************************************************************************)
ClippingDone == pc \in {"setup_scene_scripting", "setup_preferences", "done"}

Clipped(attrs) ==
    /\ attrs["clip_start"] = 1
    /\ attrs["clip_end"] = 1000000
    /\ attrs["clip_start"] < attrs["clip_end"]

\* C7 as claimed: after setup_scene_clipping every VIEW_3D space in every
\* screen and every camera has clip_start = 0.001 and clip_end = 1000.
C7_AsClaimed ==
    ClippingDone =>
        /\ \A r \in SpaceSet(bpy) : IsView3D(bpy, r) => Clipped(SpaceAt(bpy, r).attrs)
        /\ \A i \in 1..Len(bpy.cameras) : Clipped(bpy.cameras[i])

\* C7 (amended): after setup_scene_clipping completes, every VIEW_3D space
\* that lies in a VIEW_3D area, in every screen, and every camera has
\* clip_start = 0.001 and clip_end = 1000, whatever they held before.
C7_Clipping ==
    ClippingDone =>
        /\ \A r \in SpaceSet(bpy) :
              (IsView3D(bpy, r) /\ InView3DArea(bpy, r)) =>
                  Clipped(SpaceAt(bpy, r).attrs)
        /\ \A i \in 1..Len(bpy.cameras) : Clipped(bpy.cameras[i])

\* the first pass is past the setter in a host with a camera, a 3D view in
\* each screen and values that were different before
C7_Witness ==
    /\ pc = "setup_scene_scripting"
    /\ runs = 0
    /\ Len(bpy.cameras) >= 1
    /\ bpy.scene["cycles.samples"] = 128
    /\ bpy.preferences = PriorPreferences
    /\ \A s \in 1..Len(bpy.screens) :
          \E r \in SpaceSet(bpy) :
             r[1] = s /\ IsView3D(bpy, r) /\ InView3DArea(bpy, r)
    /\ \E r \in SpaceSet(bpy) :
          /\ IsView3D(bpy, r) /\ InView3DArea(bpy, r)
          /\ SpaceAt(bpy, r).attrs["shading.type"] = "WIREFRAME"

(***************************************************************************)
(* C8 - setup_scene_outliner                                               *)
(***************************************************************************)
OutlinerKeys == { OutlinerValues[i][1] : i \in 1..Len(OutlinerValues) }

IsViewLayerOutliner(b, r) ==
    /\ SpaceAt(b, r).type = "OUTLINER"
    /\ SpaceAt(b, r).attrs["display_mode"] = "VIEW_LAYER"

InOutlinerArea(b, r) == AreaOf(b, r).type = "OUTLINER"

OutlinerStep(targets) ==
    pc = "setup_scene_outliner" =>
        /\ SpaceSet(bpy') = SpaceSet(bpy)
        /\ \A r \in SpaceSet(bpy) :
              IF r \in targets
              THEN /\ SpaceAt(bpy', r).attrs["show_restrict_column_select"] = TRUE
                   /\ SpaceAt(bpy', r).attrs["show_restrict_column_render"] = TRUE
                   /\ SpaceAt(bpy', r).attrs["display_mode"] = "VIEW_LAYER"
              ELSE SpaceAt(bpy', r) = SpaceAt(bpy, r)

\* C8 as claimed: setup_scene_outliner sets the two flags on every OUTLINER
\* space whose display_mode is VIEW_LAYER and leaves every other space
\* unchanged.
C8_AsClaimed ==
    [][OutlinerStep({ r \in SpaceSet(bpy) : IsViewLayerOutliner(bpy, r) })]_vars

\* C8 (amended): setup_scene_outliner sets show_restrict_column_select and
\* show_restrict_column_render to true on every OUTLINER space that lies in
\* an OUTLINER area and whose display_mode is VIEW_LAYER, and leaves the two
\* flags unchanged on every other space (an outliner in another display
\* mode, an outliner kept in an area that now shows another editor, a space
\* of another type).
C8_OutlinerFrame ==
    [][OutlinerStep({ r \in SpaceSet(bpy) :
                        IsViewLayerOutliner(bpy, r) /\ InOutlinerArea(bpy, r) })]_vars

\* after the setter: a view-layer outliner with both flags set and an
\* outliner in another display mode with both flags still clear
C8_Witness ==
    /\ pc = "setup_scene_clipping"
    /\ runs = 0
    /\ \E r \in SpaceSet(bpy) :
          /\ IsViewLayerOutliner(bpy, r) /\ InOutlinerArea(bpy, r)
          /\ HasAll(SpaceAt(bpy, r).attrs, OutlinerValues)
    /\ \E r \in SpaceSet(bpy) :
          /\ SpaceAt(bpy, r).type = "OUTLINER"
          /\ SpaceAt(bpy, r).attrs["display_mode"] = "LIBRARIES"
          /\ ~SpaceAt(bpy, r).attrs["show_restrict_column_select"]
          /\ ~SpaceAt(bpy, r).attrs["show_restrict_column_render"]

ApplyMessage == "BlenderCustomSettings: Apply custom settings..."

UnsupportedMessage == "BlenderCustomSettings: Unsupported version!"

\* the version string of a release of the series major.minor
IsReleaseOf(v, major, minor) ==
    \E p \in 0..MaxPatch : v = Release(major, minor, p)

\* the setters in the order of the entry point
FixedOrder ==
    <<"setup_scene_cycles", "setup_scene_shading", "setup_scene_outliner",
      "setup_scene_clipping", "setup_scene_scripting", "setup_preferences">>

\* a run on a supported host has called the setters in the fixed order, one
\* more at each position of the run, all six once it is over, and no
\* exception has left it
RunsAllSetters ==
    /\ exception = "none"
    /\ pc # "error"
    /\ pc = "start" => calls = <<>>
    /\ pc = "done" => calls = FixedOrder
    /\ \A i \in 1..Len(FixedOrder) :
          pc = FixedOrder[i] => calls = SubSeq(FixedOrder, 1, i - 1)

Untouched(b) ==
    b = Host(b.version_string, DefaultLayout, 1, FALSE, DOMAIN b.addons)

\* C2 as claimed: on a release of a series that is not in the supported
\* list, a run invokes no setter, changes no host object, prints the
\* "Unsupported version!" message and raises no exception.
C2_AsClaimed ==
    ( /\ \E r \in ReleaseSeries \ {<<2, 83>>} :
            IsReleaseOf(bpy.version_string, r[1], r[2])
      /\ pc # "start" ) =>
        /\ pc = "done"
        /\ exception = "none"
        /\ calls = <<>>
        /\ output = <<UnsupportedMessage>>
        /\ Untouched(bpy)

\* C4: every release 2.83.N is accepted by the version guard (the run prints
\* the apply message and enters the first setter), and a version string is
\* accepted exactly when its first four characters are "2.83", the one
\* numeral of four characters whose value is in self.supports.
C4_Series283Accepted ==
    (pc # "start") =>
        LET v == bpy.version_string
            accepted == output = <<ApplyMessage>>
        IN  /\ IsReleaseOf(v, 2, 83) => accepted
            /\ accepted <=>
                  (Len(v) >= 4 /\ SubSeq(v, 1, 4) = <<"2", ".", "8", "3">>)

\* release 2.83.10, with its two-digit patch number, has passed the guard
C4_Witness ==
    /\ bpy.version_string = <<"2", ".", "8", "3", ".", "1", "0">>
    /\ pc = "setup_scene_shading"
    /\ output = <<ApplyMessage>>

\* the statements each setter runs in the hosts of SpecVersions, whose
\* layout is DefaultLayout with one camera
DefaultStatements ==
    << CyclesAssignments,
       ForEach(<< <<"space", 1, 1, 1>> >>, ShadingValues),
       ForEach(<< <<"space", 1, 2, 1>> >>, OutlinerValues),
       ForEach(<< <<"space", 1, 1, 1>>, <<"space", 2, 1, 1>>, <<"camera", 1>> >>,
               ClipValues),
       ForEach(<< <<"space", 1, 3, 1>> >>, ScriptingValues),
       PreferencesAssignments >>

\* the host refuses statement a
Refused(a) ==
    \/ a.key \in rejects
    \/ a.obj[1] = "addon" /\ a.obj[2] \notin DOMAIN bpy.addons

\* the first setter, and in it the first statement, that the host refuses
FirstRefusal ==
    LET bad == { q \in (1..Len(DefaultStatements)) \X (1..Len(CyclesAssignments)) :
                   /\ q[2] <= Len(DefaultStatements[q[1]])
                   /\ Refused(DefaultStatements[q[1]][q[2]]) }
    IN  CHOOSE q \in bad : \A o \in bad : q = o \/ Before(<<q[1], q[2], 0>>, <<o[1], o[2], 0>>)

IsApplied(a) == GetAttr(bpy, a.obj, a.key) = a.val

IsAsBefore(a) ==
    (a.obj[1] = "addon" => a.obj[2] \in DOMAIN bpy.addons) =>
        GetAttr(bpy, a.obj, a.key) =
            GetAttr(Host(bpy.version_string, DefaultLayout, 1, FALSE,
                         DOMAIN bpy.addons), a.obj, a.key)

\* C5: a failure raised by the host during a setter is not caught.  On a
\* supported host that refuses a statement the run ends in the setter that
\* holds the first refused statement with the host's exception; the setters
\* after it are never invoked; every statement before the refused one has
\* taken effect and stays applied, the refused one and those after it have
\* not.
C5_FailurePropagates ==
    /\ exception \in {"TypeError", "KeyError", "AttributeError"} => pc = "error"
    /\ ( /\ output = <<ApplyMessage>>
         /\ \E i \in 1..Len(DefaultStatements) :
               \E j \in 1..Len(DefaultStatements[i]) :
                  Refused(DefaultStatements[i][j]) ) =>
          LET f == FirstRefusal
          IN  /\ pc # "done"
              /\ \A i \in f[1] + 1..Len(FixedOrder) : pc # FixedOrder[i]
              /\ pc = "error" =>
                    /\ calls = SubSeq(FixedOrder, 1, f[1])
                    /\ exception =
                          IF DefaultStatements[f[1]][f[2]].key \in rejects
                          THEN "TypeError" ELSE "KeyError"
                    /\ \A i \in 1..Len(DefaultStatements) :
                          \A j \in 1..Len(DefaultStatements[i]) :
                             IF Before(<<i, j, 0>>, <<f[1], f[2], 0>>)
                             THEN IsApplied(DefaultStatements[i][j])
                             ELSE runs = 0 => IsAsBefore(DefaultStatements[i][j])

\* the host refused clip_end: the run stopped in setup_scene_clipping with
\* the cycles, shading and outliner settings and the first clip_start applied
C5_Witness ==
    /\ pc = "error"
    /\ runs = 0
    /\ exception = "TypeError"
    /\ rejects = {"clip_end"}
    /\ calls = SubSeq(FixedOrder, 1, 4)
    /\ bpy.scene["render.engine"] = "CYCLES"
    /\ HasAll(SpaceAt(bpy, <<1, 1, 1>>).attrs, ShadingValues)
    /\ SpaceAt(bpy, <<1, 1, 1>>).attrs["clip_start"] = 1
    /\ SpaceAt(bpy, <<1, 1, 1>>).attrs["clip_end"] = 100000
    /\ SpaceAt(bpy, <<1, 3, 1>>).attrs["font_size"] = 12

====
